---- MODULE Spec2Model ----
(***************************************************************************)
(* scoreCT (src/src/scorect.py): bin-weighted marker-overlap scoring of    *)
(* clusters, permutation p-values and cell type assignment.                *)
(*                                                                         *)
(* Two specifications share this module.                                   *)
(*   Spec       the life cycle of one analysed dataset (an AnnData         *)
(*              object): score_clusters, one step per permutation          *)
(*              iteration, then any number of assign_celltypes calls.      *)
(*   SpecScore  _score_iter as a pure function of its four arguments,      *)
(*              called on arbitrary ranked tables, and called again on     *)
(*              the table obtained by exchanging two rank positions.       *)
(*                                                                         *)
(* Numbers.  A p-value is float(count) / random_sampling.  It is kept as   *)
(* the pair <<count, random_sampling>> and compared by cross               *)
(* multiplication; the threshold is a pair too.  For the small integers    *)
(* of the model the correctly rounded double of n/d is the same for equal  *)
(* fractions and ordered as the fractions are, so the comparisons of the   *)
(* code (>, ==, min) agree with the comparisons of the pairs.              *)
(***************************************************************************)
EXTENDS Integers, Sequences, FiniteSets

\* ---------------------------------------------------------------- bounds
\* Spec: the permutation iterations and the cells of the dataset.
MaxSampling == 2
NumCells == 2
\* SpecScore: rows per cluster of the table handed to _score_iter.
MaxRows == 4

\* Spec: the numbers of ranked genes per group (nb_marker) and the bin
\* sizes; bin size 3 leaves no bin
MarkerCounts == 1..2
BinSizes == 1..3

\* gene symbols and the cell types of the reference
Genes == {"g1", "g2"}
CellTypes == <<"A", "B", "C">>

\* ------------------------------------------------------ general helpers
RECURSIVE SumTo(_, _)
\* f(0) + ... + f(n-1), with f a function on 0..n-1
SumTo(f, n) == IF n <= 0 THEN 0 ELSE f[n - 1] + SumTo(f, n - 1)

Range(s) == {s[j] : j \in DOMAIN s}

\* the dictionary with no key
EmptyDict == [x \in {} |-> 0]

\* ------------------------------------------------- wrangle_ranked_genes
\* rank_genes_groups['names'] is modelled as a function from the column
\* index i (column str(i)) to the sequence of the nb_marker gene names of
\* that group.  The scores and adjusted p-values of the ranking are a
\* fixed function of the position.
RowScore(i, r) == 10 - r
RowPval(i, r) == r

wrangle_ranked_genes(names, nb) ==
    LET ncol == Cardinality(DOMAIN names)
    IN  [j \in 1..(ncol * nb) |->
            LET i == (j - 1) \div nb
                r == (j - 1) % nb
            IN  [z_score |-> RowScore(i, r), adj_pvals |-> RowPval(i, r),
                 gene |-> names[i][r + 1], cluster_number |-> i, rank |-> r]]

\* ----------------------------------------------------------- _score_iter
\* ranked_marker[ranked_marker['cluster_number'] == clust]: the rows of
\* the cluster, in table order
RECURSIVE FilterCluster(_, _)
FilterCluster(df, clust) ==
    IF df = <<>> THEN <<>>
    ELSE IF Head(df).cluster_number = clust
         THEN <<Head(df)>> \o FilterCluster(Tail(df), clust)
         ELSE FilterCluster(Tail(df), clust)

\* df[a:b], a positional slice of rows (0-based, b excluded, clipped)
Slice(df, a, b) ==
    LET lo == IF a < Len(df) THEN a ELSE Len(df)
        hi == IF b < Len(df) THEN b ELSE Len(df)
    IN  IF hi <= lo THEN <<>> ELSE SubSeq(df, lo + 1, hi)

\* int(nb_marker / bin_size)
NumBins(nb_marker, bin_size) == nb_marker \div bin_size

\* score_list[-(1 + k)] with score_list = range(1, num_bins + 1)
BinWeightMut(num_bins, k) == k + 1
BinWeight(num_bins, k) == num_bins - k

\* score_i of one bin and one cell type
BinScore(sub_df, ref_df, cell_type, nb_marker, bin_size, k) ==
    LET bin_df == Slice(sub_df, k * bin_size, bin_size + (k * bin_size))
    IN  BinWeight(NumBins(nb_marker, bin_size), k)
          * Cardinality(ref_df[cell_type] \cap {row.gene : row \in Range(bin_df)})

\* dict_scores.  A cell type gets its key in the first bin; with no bin
\* (or no column in the reference) the cluster keeps the empty dictionary.
score_iter(ranked_marker, nb_marker, ref_df, bin_size) ==
    LET nbins == NumBins(nb_marker, bin_size)
        clusts == {row.cluster_number : row \in Range(ranked_marker)}
    IN  [clust \in clusts |->
            LET sub_df == FilterCluster(ranked_marker, clust)
            IN  IF nbins = 0 THEN EmptyDict
                ELSE [cell_type \in DOMAIN ref_df |->
                        SumTo([k \in 0..(nbins - 1) |->
                                 BinScore(sub_df, ref_df, cell_type, nb_marker, bin_size, k)],
                              nbins)]]

\* =====================================================================
\* Spec: score_clusters and assign_celltypes on one dataset
\* =====================================================================
VARIABLES
    obs,             \* anndata.obs: column -> value per cell
    uns,             \* anndata.uns: key -> value
    user_ref,        \* the reference: cell type -> set of marker genes
    bin_size,        \* argument bin_size of score_clusters
    random_sampling, \* argument random_sampling of score_clusters
    gene_list,       \* what _get_genelist returns, the background pool
    pc,              \* "ready", "loop", "scored", "returned", "raised"
    ret,             \* what score_clusters returned or raised
    ranked_marker,   \* score_clusters: the wrangled table
    ref_score,       \* score_clusters: the observed scores
    count_dict,      \* score_clusters: the counters
    iter,            \* score_clusters: iterations of the loop completed
    copy_df,         \* the table randomize_genes returned in the last iteration, <<>> outside the loop
    matched,         \* history: per pair, how many iterations had a permuted score >= the observed one
    assign_ret,      \* outcome of the last assign_celltypes call
    assign_type,     \* assign_celltypes: the label computed for each cluster
    last_thrsh,      \* history: argument pval_thrsh of the last assign_celltypes call
    warned           \* clusters reported as ambiguously assigned (no statement of
                     \* assign_celltypes reports one)

ds_vars == <<obs, uns, user_ref, bin_size, random_sampling, gene_list, pc, ret,
          ranked_marker, ref_score, count_dict, iter, copy_df, matched,
          assign_ret, assign_type, last_thrsh, warned>>

VARIABLES
    si_names,    \* the ranking the table is wrangled from
    si_ref,      \* ref_df: cell type -> set of marker genes
    si_bin,      \* bin_size
    si_table,    \* ranked_marker, the argument of the last call
    si_scores,   \* dict_scores returned by the last call
    si_before,   \* dict_scores returned by the call before the exchange
    si_move,     \* the exchange made: cluster, later and earlier position
    si_pc        \* "init", "scored", "moved"

si_vars == <<si_names, si_ref, si_bin, si_table, si_scores, si_before, si_move, si_pc>>

vars == <<ds_vars, si_vars>>

\* nb_marker = len(rank_genes_groups['names'])
NbMarker(names) == Len(names[0])

Cells == 1..NumCells

\* str(cluster)
Str(n) == CASE n = 0 -> "0" [] n = 1 -> "1" [] n = 2 -> "2" [] OTHER -> "3"

\* the order of the columns of the reference, list(ref_df)
Columns(ref_df) == SelectSeq(CellTypes, LAMBDA ct : ct \in DOMAIN ref_df)

\* the two adjacent string literals of the return statement, concatenated
ErrorMessage == "Error: No clustering solution OR gene ranking found. Please perform scanpy.tl.louvain orscanpy.tl.leiden for clustering, and sc.tl.rank_genes_groups for differential gene expression."

\* what assign_celltypes returns when it completes
AssignedMessage == "Cell types assigned in Anndata.obs['scorect']"

\* the values pval_thrsh is called with
Thresholds == {<<0, 1>>, <<1, 10>>, <<1, 2>>}

\* p-values and thresholds as fractions
Frac(count, n) == <<count, n>>
Gt(a, b) == a[1] * b[2] > b[1] * a[2]
Eq(a, b) == a[1] * b[2] = b[1] * a[2]

\* ------------------------------------------------------------ the dataset
\* The cells carry a cluster label in each clustering column of obs; the
\* ranking, when present, has one column per cluster.
ClusterColumns == {"louvain", "leiden"}

Labels(col, ncl) ==
    [cell \in Cells |-> IF col = "louvain" THEN Str((cell - 1) % ncl) ELSE Str(cell % ncl)]

\* the references: any marker sets for A and B, none or one marker for C
References ==
    {r \in [Range(CellTypes) -> SUBSET Genes] : r["C"] \in {{}, {"g1"}}}

OtherGene(g) == IF g = "g1" THEN "g2" ELSE "g1"

\* the column the ranking was grouped by
GroupBy(cols) ==
    IF "louvain" \in cols THEN "louvain" ELSE IF "leiden" \in cols THEN "leiden" ELSE "batch"

\* SpecScore's variables while the dataset is analysed
ScoreIdle ==
    /\ si_names = EmptyDict
    /\ si_ref = EmptyDict
    /\ si_bin = 0
    /\ si_table = <<>>
    /\ si_scores = EmptyDict
    /\ si_before = EmptyDict
    /\ si_move = EmptyDict
    /\ si_pc = "idle"

\* A dataset of two clusters: any ranking of genes for group 0, and for
\* group 1 the other gene at each rank.
Init ==
    /\ ScoreIdle
    /\ \E nb \in MarkerCounts : \E s \in [1..nb -> Genes] :
       \E cols \in SUBSET ClusterColumns : \E ranked \in BOOLEAN :
         LET names == [i \in 0..1 |-> IF i = 0 THEN s ELSE [r \in 1..nb |-> OtherGene(s[r])]]
         IN  /\ obs = [col \in cols |-> Labels(col, 2)]
             /\ uns = IF ranked
                      THEN [key \in {"rank_genes_groups"} |->
                               [names |-> names, groupby |-> GroupBy(cols)]]
                      ELSE EmptyDict
    /\ user_ref \in References
    /\ bin_size \in BinSizes
    /\ random_sampling \in 1..MaxSampling
    /\ gene_list \in {{}, Genes}
    /\ pc = "ready"
    /\ ret = "none"
    /\ ranked_marker = <<>>
    /\ ref_score = EmptyDict
    /\ count_dict = EmptyDict
    /\ iter = 0
    /\ matched = EmptyDict
    /\ assign_ret = "none"
    /\ assign_type = EmptyDict
    /\ last_thrsh = <<>>
    /\ warned = {}
    /\ copy_df = <<>>

\* ---------------------------------------------------------- score_clusters
\* the check of the prerequisites
MissingPrerequisiteMut(o, u) == "rank_genes_groups" \notin DOMAIN u
MissingPrerequisite(o, u) ==
    ~(~("louvain" \notin DOMAIN o) \/ ~("leiden" \notin DOMAIN o)) \/ "rank_genes_groups" \notin DOMAIN u

\* the dictionary d with d[key] = value
SetKey(d, key, value) ==
    [k \in (DOMAIN d) \cup {key} |-> IF k = key THEN value ELSE d[k]]

\* i_dict[clust][ct] >= ref_score[clust][ct]
AtLeastMut(permuted, observed) == permuted > observed
AtLeast(permuted, observed) == permuted >= observed

\* float(count) / random_sampling
PValue(count, n) == Frac(count, n)

\* np.random.choice(gene_list, size) raises ValueError when gene_list is
\* empty and size is not 0
ChoiceRaisesMut(pool, size) == FALSE
ChoiceRaises(pool, size) == pool = {} /\ size # 0

\* randomize_genes: a copy of the table whose gene column is rd_pick
randomize_genes(marker_df, rd_pick) ==
    [j \in DOMAIN marker_df |-> [marker_df[j] EXCEPT !.gene = rd_pick[j]]]

\* marker_df after the call: copy_df is marker_df.copy(), a table of its own,
\* so the assignment to copy_df['gene'] leaves marker_df as it was
MarkerAfterCopyMut(marker_df, copy) == copy
MarkerAfterCopy(marker_df, copy) == marker_df

\* From the call up to the loop.  With a prerequisite missing the call
\* returns the error message at once.
ScoreClustersStart ==
    /\ pc = "ready"
    /\ IF MissingPrerequisite(obs, uns)
       THEN /\ ret' = ErrorMessage
            /\ pc' = "returned"
            /\ UNCHANGED <<ranked_marker, ref_score, count_dict, matched>>
       ELSE LET names == uns["rank_genes_groups"].names
                nb_marker == NbMarker(names)
                table == wrangle_ranked_genes(names, nb_marker)
                scores == score_iter(table, nb_marker, user_ref, bin_size)
            IN  /\ ranked_marker' = table
                /\ ref_score' = scores
                /\ count_dict' = [clust \in DOMAIN scores |-> [ct \in DOMAIN scores[clust] |-> 0]]
                /\ matched' = [clust \in DOMAIN scores |-> [ct \in DOMAIN scores[clust] |-> 0]]
                /\ pc' = "loop"
                /\ UNCHANGED ret
    /\ UNCHANGED <<obs, uns, user_ref, bin_size, random_sampling, gene_list, iter, copy_df,
                   assign_ret, assign_type, last_thrsh, warned>>
    /\ UNCHANGED si_vars

\* One iteration of the loop.  np.random.choice raises ValueError on an
\* empty gene_list (the table is never empty).
PermutationIteration ==
    /\ pc = "loop"
    /\ iter < random_sampling
    /\ IF ChoiceRaises(gene_list, Len(ranked_marker))
       THEN /\ ret' = "ValueError"
            /\ pc' = "raised"
            /\ UNCHANGED <<count_dict, iter, matched, ranked_marker, copy_df>>
       ELSE \E rd_pick \in [DOMAIN ranked_marker -> gene_list] :
              LET nb_marker == NbMarker(uns["rank_genes_groups"].names)
                  random_df == randomize_genes(ranked_marker, rd_pick)
              IN  \E i_dict \in {score_iter(random_df, nb_marker, user_ref, bin_size)} :
                  /\ copy_df' = random_df
                  /\ ranked_marker' = MarkerAfterCopy(ranked_marker, random_df)
                  /\ count_dict' =
                        [clust \in DOMAIN ref_score |-> [ct \in DOMAIN ref_score[clust] |->
                            IF AtLeast(i_dict[clust][ct], ref_score[clust][ct])
                            THEN count_dict[clust][ct] + 1
                            ELSE count_dict[clust][ct]]]
                  /\ matched' =
                        [clust \in DOMAIN matched |-> [ct \in DOMAIN matched[clust] |->
                            IF i_dict[clust][ct] >= ref_score[clust][ct]
                            THEN matched[clust][ct] + 1
                            ELSE matched[clust][ct]]]
                  /\ iter' = iter + 1
                  /\ UNCHANGED <<ret, pc>>
    /\ UNCHANGED <<obs, uns, user_ref, bin_size, random_sampling, gene_list,
                   ref_score, assign_ret, assign_type, last_thrsh, warned>>
    /\ UNCHANGED si_vars

\* After the loop: the p-values, the results slot and the return.
ScoreClustersEnd ==
    /\ pc = "loop"
    /\ iter = random_sampling
    /\ LET stat_dict == [clust \in DOMAIN count_dict |-> [ct \in DOMAIN count_dict[clust] |->
                            PValue(count_dict[clust][ct], random_sampling)]]
       IN  uns' = SetKey(uns, "scoreCT",
                         [pval_dict |-> stat_dict, score_dict |-> ref_score,
                          clustering |-> uns["rank_genes_groups"].groupby])
    /\ ret' = "DONE"
    /\ pc' = "scored"
    /\ copy_df' = <<>>
    /\ UNCHANGED <<obs, user_ref, bin_size, random_sampling, gene_list,
                   ranked_marker, ref_score, count_dict, iter, matched,
                   assign_ret, assign_type, last_thrsh, warned>>
    /\ UNCHANGED si_vars

\* -------------------------------------------------------- assign_celltypes
\* min(d.values())
MinValue(d) == CHOOSE v \in {d[k] : k \in DOMAIN d} : \A k \in DOMAIN d : ~Gt(v, d[k])

\* min(d, key=d.get) and max(d, key=d.get): the first key, in the order
\* of the dictionary, whose value is the least (the greatest)
FirstMin(d, order) ==
    LET j == CHOOSE j \in DOMAIN order :
                /\ \A m \in DOMAIN order : ~Gt(d[order[j]], d[order[m]])
                /\ \A m \in 1..(j - 1) : Gt(d[order[m]], d[order[j]])
    IN  order[j]

FirstMax(d, order) ==
    LET j == CHOOSE j \in DOMAIN order :
                /\ \A m \in DOMAIN order : d[order[j]] >= d[order[m]]
                /\ \A m \in 1..(j - 1) : d[order[m]] < d[order[j]]
    IN  order[j]

\* min_value > pval_thrsh
AboveThresholdMut(min_value, pval_thrsh) == ~Gt(pval_thrsh, min_value)
AboveThreshold(min_value, pval_thrsh) == Gt(min_value, pval_thrsh)

\* the keys whose p-value is min_value
MinKeys(pvals) == {key \in DOMAIN pvals : Eq(pvals[key], MinValue(pvals))}

\* the branch without a tie
UniqueMinTypeMut(pvals, order) == order[1]
UniqueMinType(pvals, order) == FirstMin(pvals, order)

\* assign_type of one cluster
AssignType(pvals, scores, order, pval_thrsh) ==
    IF AboveThreshold(MinValue(pvals), pval_thrsh) THEN "NA"
    ELSE IF Cardinality(MinKeys(pvals)) > 1 THEN FirstMax(scores, order)
    ELSE UniqueMinType(pvals, order)

\* The clusters the loop completes: those before the first cluster whose
\* p-value dictionary is empty, where min() raises ValueError.
Processed(pval_dict) ==
    {c \in DOMAIN pval_dict : \A b \in DOMAIN pval_dict : b <= c => DOMAIN pval_dict[b] # {}}

\* One call, on a dataset that score_clusters completed on (the slot
\* 'scoreCT' exists).  obs['scorect'] is reset first; the threshold is
\* recorded inside the loop, once per cluster completed.
AssignCelltypes ==
    /\ pc = "scored"
    /\ \E pval_thrsh \in Thresholds :
         LET slot == uns["scoreCT"]
             clust_method == slot.clustering
             done == Processed(slot.pval_dict)
             order == Columns(user_ref)
             type == [c \in done |->
                         AssignType(slot.pval_dict[c], slot.score_dict[c], order, pval_thrsh)]
         IN  /\ obs' = SetKey(obs, "scorect",
                         [cell \in Cells |->
                             IF \E c \in done : obs[clust_method][cell] = Str(c)
                             THEN type[CHOOSE c \in done : obs[clust_method][cell] = Str(c)]
                             ELSE ""])
             /\ uns' = IF done = {} THEN uns
                       ELSE SetKey(uns, "scoreCT", SetKey(slot, "pval_thrsh", pval_thrsh))
             /\ assign_type' = type
             /\ assign_ret' = IF done = DOMAIN slot.pval_dict THEN AssignedMessage ELSE "ValueError"
             /\ last_thrsh' = pval_thrsh
    /\ UNCHANGED <<user_ref, bin_size, random_sampling, gene_list, pc, ret,
                   ranked_marker, ref_score, count_dict, iter, copy_df, matched, warned>>
    /\ UNCHANGED si_vars

Next ==
    \/ ScoreClustersStart
    \/ PermutationIteration
    \/ ScoreClustersEnd
    \/ AssignCelltypes

Spec == Init /\ [][Next]_vars

\* ------------------------------------------------------- Spec: the claims
Slot == uns["scoreCT"]
Scored == pc = "scored"
\* an assign_celltypes call was made, and the last one returned
Assigned == pc = "scored" /\ assign_ret = AssignedMessage

Leq(a, b) == a[1] * b[2] <= b[1] * a[2]

\* the cell types whose p-value for cluster c is the minimum
TiedSet(c) ==
    {ct \in DOMAIN Slot.pval_dict[c] :
        \A o \in DOMAIN Slot.pval_dict[c] : Leq(Slot.pval_dict[c][ct], Slot.pval_dict[c][o])}

\* the minimum p-value of cluster c is above, at, below the last threshold
MinAbove(c) == \A ct \in TiedSet(c) : ~Leq(Slot.pval_dict[c][ct], last_thrsh)
MinAt(c) == \A ct \in TiedSet(c) : Slot.pval_dict[c][ct][1] * last_thrsh[2] = last_thrsh[1] * Slot.pval_dict[c][ct][2]

\* the cells of cluster c carry the label
Labelled(c, label) ==
    \A cell \in Cells : obs[Slot.clustering][cell] = Str(c) => obs["scorect"][cell] = label

\* C2: in the loop each counter is the number of iterations done whose
\* permuted score was >= the observed score, so at most the iterations
\* done; when score_clusters has completed, the stored p-value of every
\* pair is that number over K = random_sampling: in [0, 1], a multiple of
\* 1/K, and 0 only if no iteration matched or exceeded the observed score.
C2_PValueIsMatchedOverK ==
    /\ pc = "loop" =>
          \A c \in DOMAIN count_dict : \A ct \in DOMAIN count_dict[c] :
              /\ count_dict[c][ct] = matched[c][ct]
              /\ count_dict[c][ct] <= iter
    /\ Scored =>
          /\ iter = random_sampling
          /\ DOMAIN Slot.pval_dict = DOMAIN ref_score
          /\ \A c \in DOMAIN Slot.pval_dict :
               /\ DOMAIN Slot.pval_dict[c] = DOMAIN ref_score[c]
               /\ \A ct \in DOMAIN Slot.pval_dict[c] :
                    LET pv == Slot.pval_dict[c][ct]
                    IN  /\ pv[1] * random_sampling = matched[c][ct] * pv[2]
                        /\ 0 <= pv[1] /\ pv[1] <= pv[2]
                        /\ (pv[1] * random_sampling) % pv[2] = 0
                        /\ (pv[1] = 0 => matched[c][ct] = 0)

\* C2 witness: a completed run of two iterations with a pair matched by
\* one of them and a pair matched by none.
C2_Witness ==
    /\ Scored
    /\ random_sampling = 2
    /\ \E c \in DOMAIN Slot.pval_dict : \E a, b \in DOMAIN Slot.pval_dict[c] :
          /\ Slot.pval_dict[c][a] = <<1, 2>> /\ matched[c][a] = 1
          /\ Slot.pval_dict[c][b] = <<0, 2>> /\ matched[c][b] = 0

\* C3 as claimed: a cluster whose minimum p-value is within the threshold
\* and shared by several cell types is assigned a member of the tied set
\* with the highest raw score among the tied set.
C3_TieBrokenWithinTiedSet ==
    Assigned =>
        \A c \in DOMAIN assign_type :
            (~MinAbove(c) /\ Cardinality(TiedSet(c)) > 1) =>
                /\ assign_type[c] \in TiedSet(c)
                /\ \A o \in TiedSet(c) :
                     Slot.score_dict[c][assign_type[c]] >= Slot.score_dict[c][o]

\* C4: after assign_celltypes a cluster whose minimum p-value is greater
\* than the threshold is labelled "NA", and a cluster whose minimum is not
\* greater and belongs to exactly one cell type is labelled that cell
\* type; the cells of the cluster carry the label.
C4_NAOrUniqueMinimum ==
    Assigned =>
        \A c \in DOMAIN Slot.pval_dict :
            /\ c \in DOMAIN assign_type
            /\ MinAbove(c) => (assign_type[c] = "NA" /\ Labelled(c, "NA"))
            /\ (~MinAbove(c) /\ Cardinality(TiedSet(c)) = 1) =>
                   (assign_type[c] \in TiedSet(c) /\ Labelled(c, assign_type[c]))

\* C4 witness: one call left a cluster "NA" and gave another its only
\* minimal cell type.
C4_Witness ==
    /\ Assigned
    /\ \E c, d \in DOMAIN assign_type :
          /\ MinAbove(c) /\ assign_type[c] = "NA"
          /\ ~MinAbove(d) /\ TiedSet(d) = {assign_type[d]}

\* C5 as claimed: a cluster whose minimum p-value equals the threshold is
\* assigned "NA".
C5_BoundaryIsNA ==
    Assigned => \A c \in DOMAIN assign_type : MinAt(c) => assign_type[c] = "NA"

\* C5 amended: a cluster whose minimum p-value equals the threshold is not
\* assigned "NA"; it is assigned a cell type of the reference.
C5_BoundaryIsAssigned ==
    Assigned =>
        \A c \in DOMAIN assign_type :
            MinAt(c) => (assign_type[c] # "NA" /\ assign_type[c] \in DOMAIN user_ref
                         /\ Labelled(c, assign_type[c]))

\* C5 witness: a minimum of 1/2 met the threshold 1/2 and the cluster got
\* a cell type.
C5_Witness ==
    /\ Assigned
    /\ last_thrsh = <<1, 2>>
    /\ \E c \in DOMAIN assign_type : MinAt(c) /\ assign_type[c] \in DOMAIN user_ref

\* the dataset lacks a clustering column or the ranking
Lacking ==
    ("louvain" \notin DOMAIN obs /\ "leiden" \notin DOMAIN obs)
        \/ "rank_genes_groups" \notin DOMAIN uns

\* C6: on a dataset without a 'louvain' or 'leiden' column, or without
\* 'rank_genes_groups', score_clusters returns at once with the error
\* message instead of 'DONE': no table, no score, no counter, no iteration,
\* and no 'scoreCT' slot.
C6_MissingPrerequisiteReturnsError ==
    (Lacking /\ pc # "ready") =>
        /\ pc = "returned"
        /\ ret = ErrorMessage /\ ret # "DONE"
        /\ ranked_marker = <<>> /\ ref_score = EmptyDict /\ count_dict = EmptyDict
        /\ iter = 0
        /\ "scoreCT" \notin DOMAIN uns

\* C6 witness: the call returned the error on a dataset that has the
\* ranking but no clustering column.
C6_Witness ==
    /\ pc = "returned"
    /\ ret = ErrorMessage
    /\ "rank_genes_groups" \in DOMAIN uns
    /\ DOMAIN obs = {}

\* C7: with an empty background pool score_clusters raises, out of
\* np.random.choice in the first iteration: no permuted table was scored,
\* no counter moved, no result is stored.
C7_EmptyPoolFailsFirst ==
    (gene_list = {} /\ ~Lacking /\ pc # "ready") =>
        /\ pc \in {"loop", "raised"}
        /\ iter = 0
        /\ \A c \in DOMAIN count_dict : \A ct \in DOMAIN count_dict[c] : count_dict[c][ct] = 0
        /\ "scoreCT" \notin DOMAIN uns
        /\ pc = "raised" => ret = "ValueError"
        /\ pc = "loop" => (ret = "none" /\ ENABLED PermutationIteration)

\* C7 witness: the call raised on an empty pool.
C7_Witness == gene_list = {} /\ pc = "raised" /\ ret = "ValueError" /\ random_sampling = 2

\* C8 as claimed: a cluster whose tie-break by score leaves several cell
\* types of the tied set with the highest score is reported.
C8_ResidualTieReported ==
    Assigned =>
        \A c \in DOMAIN assign_type :
            (/\ ~MinAbove(c)
             /\ \E a, b \in TiedSet(c) :
                   /\ a # b
                   /\ Slot.score_dict[c][a] = Slot.score_dict[c][b]
                   /\ \A o \in TiedSet(c) : Slot.score_dict[c][o] <= Slot.score_dict[c][a])
                => c \in warned

\* the p-values score_clusters stored, from its counters
StoredPValues ==
    [c \in DOMAIN count_dict |-> [ct \in DOMAIN count_dict[c] |->
        <<count_dict[c][ct], random_sampling>>]]

\* what one assign_celltypes call with the threshold alone leaves, from
\* the results score_clusters stored: the label of each cluster and of
\* each cell
SingleCallTypes(pval_thrsh) ==
    [c \in Processed(StoredPValues) |->
        AssignType(StoredPValues[c], ref_score[c], Columns(user_ref), pval_thrsh)]

SingleCallLabels(pval_thrsh) ==
    [cell \in Cells |->
        IF \E c \in Processed(StoredPValues) : obs[Slot.clustering][cell] = Str(c)
        THEN SingleCallTypes(pval_thrsh)[CHOOSE c \in Processed(StoredPValues) :
                                            obs[Slot.clustering][cell] = Str(c)]
        ELSE ""]

AsSingleCall ==
    /\ Slot.score_dict = ref_score
    /\ Slot.pval_dict = StoredPValues
    /\ assign_type = SingleCallTypes(last_thrsh)
    /\ obs["scorect"] = SingleCallLabels(last_thrsh)

\* C9 as claimed: after any assign_celltypes calls on a scored dataset the
\* stored scores and p-values are those of score_clusters, the labels of
\* the clusters and of the cells are those of a single call with the last
\* threshold, and the recorded threshold is the last threshold.
C9_LastThresholdOnly ==
    (Scored /\ assign_ret # "none") =>
        /\ AsSingleCall
        /\ "pval_thrsh" \in DOMAIN Slot
        /\ Slot.pval_thrsh = last_thrsh

\* C9, the part the code satisfies: all of it after a call that returned,
\* and all but the recorded threshold after a call that raised.
C9_LastThresholdWhenReturned ==
    (Scored /\ assign_ret # "none") =>
        /\ AsSingleCall
        /\ assign_ret = AssignedMessage => ("pval_thrsh" \in DOMAIN Slot /\ Slot.pval_thrsh = last_thrsh)
        /\ assign_ret = AssignedMessage <=> (\A c \in DOMAIN ref_score : DOMAIN ref_score[c] # {})

\* ------------------------------------------------------------------ C11
\* the table score_clusters wrangled from the ranking, and its scores
OriginalTable ==
    wrangle_ranked_genes(uns["rank_genes_groups"].names, NbMarker(uns["rank_genes_groups"].names))

ObservedScores ==
    score_iter(OriginalTable, NbMarker(uns["rank_genes_groups"].names), user_ref, bin_size)

\* perm has the records of orig in the same order, each with the cluster,
\* rank position, z-score and adjusted p-value of the original
SameButGene(orig, perm) ==
    /\ DOMAIN perm = DOMAIN orig
    /\ \A j \in DOMAIN orig :
         /\ perm[j].cluster_number = orig[j].cluster_number
         /\ perm[j].rank = orig[j].rank
         /\ perm[j].z_score = orig[j].z_score
         /\ perm[j].adj_pvals = orig[j].adj_pvals
         /\ DOMAIN perm[j] = DOMAIN orig[j]

\* C11: after every permutation iteration of score_clusters the ranked
\* table is still the table wrangled from the ranking and the observed
\* scores are still its scores; the permuted table randomize_genes returned
\* has the same records in the same order, with the cluster, rank position,
\* z-score and adjusted p-value of the original, and every gene of it is a
\* member of the background pool.
C11_PermutationPreservesRecords ==
    (pc = "loop" /\ iter >= 1) =>
        /\ ranked_marker = OriginalTable
        /\ ref_score = ObservedScores
        /\ SameButGene(ranked_marker, copy_df)
        /\ \A j \in DOMAIN copy_df : copy_df[j].gene \in gene_list

\* C11 witness: an iteration has run and its permuted table has, at some
\* record, another gene than the original.
C11_Witness ==
    /\ pc = "loop"
    /\ iter >= 1
    /\ \E j \in DOMAIN copy_df : copy_df[j].gene # ranked_marker[j].gene

\* ------------------------------------------------------------------ C12
\* the clusters of the ranked table
TableClusters == {ranked_marker[j].cluster_number : j \in DOMAIN ranked_marker}

\* the stored score and p-value dictionaries hold an entry for every
\* (cluster of the ranked table, cell type of the reference) pair
EveryPairHasEntry ==
    \A c \in TableClusters : \A ct \in DOMAIN user_ref :
        /\ c \in DOMAIN Slot.score_dict /\ ct \in DOMAIN Slot.score_dict[c]
        /\ c \in DOMAIN Slot.pval_dict /\ ct \in DOMAIN Slot.pval_dict[c]

\* the last assign_celltypes call returned with a label for every cluster
EveryClusterLabelled ==
    /\ assign_ret = AssignedMessage
    /\ \A c \in TableClusters :
         /\ c \in DOMAIN assign_type
         /\ assign_type[c] \in DOMAIN user_ref \cup {"NA"}
         /\ Labelled(c, assign_type[c])

\* C12 as claimed: for every nb_marker > 0 and bin_size > 0 the results
\* stored by score_clusters hold a score and a p-value for every (cluster,
\* cell type) pair, and assign_celltypes, once called, has found a minimum
\* p-value and produced a label for every cluster.
C12_EntryForEveryPair ==
    Scored =>
        /\ EveryPairHasEntry
        /\ assign_ret # "none" => EveryClusterLabelled

\* C12, the part the code satisfies: the entries and the labels exist
\* exactly when bin_size does not exceed nb_marker.
C12_EntriesWhenBinsExist ==
    Scored =>
        /\ EveryPairHasEntry <=> bin_size <= NbMarker(uns["rank_genes_groups"].names)
        /\ assign_ret # "none" =>
             (EveryClusterLabelled <=> bin_size <= NbMarker(uns["rank_genes_groups"].names))

\* =====================================================================
\* SpecScore: _score_iter called on a ranked table, and on the table with
\* the genes of two rank positions of one cluster exchanged
\* =====================================================================
ScoreGenes == {"g1", "g2", "g3"}

Reverse(s) == [j \in 1..Len(s) |-> s[Len(s) + 1 - j]]

NoMove == [cluster |-> -1, from |-> -1, to |-> -1]

\* Rankings of two groups: any sequence of genes for group 0 (a gene may
\* occur at several positions, as in a permuted table), and the same
\* genes in reverse order for group 1.
\* the dataset's variables while _score_iter is exercised
DatasetIdle ==
    /\ obs = EmptyDict
    /\ uns = EmptyDict
    /\ user_ref = EmptyDict
    /\ bin_size = 0
    /\ random_sampling = 0
    /\ gene_list = {}
    /\ pc = "idle"
    /\ ret = "none"
    /\ ranked_marker = <<>>
    /\ ref_score = EmptyDict
    /\ count_dict = EmptyDict
    /\ iter = 0
    /\ matched = EmptyDict
    /\ assign_ret = "none"
    /\ assign_type = EmptyDict
    /\ last_thrsh = <<>>
    /\ warned = {}
    /\ copy_df = <<>>

ScoreInit ==
    /\ DatasetIdle
    /\ \E n \in 1..MaxRows : \E s \in [1..n -> ScoreGenes] :
            si_names = [i \in 0..1 |-> IF i = 0 THEN s ELSE Reverse(s)]
    /\ \E m \in SUBSET ScoreGenes : si_ref = [ct \in {"A", "B"} |-> IF ct = "A" THEN m ELSE {"g1"}]
    /\ si_bin \in 1..(MaxRows + 1)
    /\ si_table = wrangle_ranked_genes(si_names, NbMarker(si_names))
    /\ si_scores = EmptyDict
    /\ si_before = EmptyDict
    /\ si_move = NoMove
    /\ si_pc = "init"

ScoreCall ==
    /\ si_pc = "init"
    /\ si_scores' = score_iter(si_table, NbMarker(si_names), si_ref, si_bin)
    /\ si_pc' = "scored"
    /\ UNCHANGED <<si_names, si_ref, si_bin, si_table, si_before, si_move>>
    /\ UNCHANGED ds_vars

\* the gene at rank position r of cluster c
GeneAt(df, c, r) == FilterCluster(df, c)[r + 1].gene

\* the table with the genes at positions p and q of cluster c exchanged
Exchange(df, c, p, q) ==
    [j \in DOMAIN df |->
        IF df[j].cluster_number = c /\ df[j].rank = p THEN [df[j] EXCEPT !.gene = GeneAt(df, c, q)]
        ELSE IF df[j].cluster_number = c /\ df[j].rank = q THEN [df[j] EXCEPT !.gene = GeneAt(df, c, p)]
        ELSE df[j]]

\* A gene of cluster c that matches a marker of some cell type moves from
\* position p, in a later bin, to position q, in an earlier bin; the gene
\* that was at q takes its place.  The table is scored again.
MoveAndRescore ==
    /\ si_pc = "scored"
    /\ \E c \in 0..1 : \E p, q \in 0..(NbMarker(si_names) - 1) :
          /\ p < NumBins(NbMarker(si_names), si_bin) * si_bin
          /\ q \div si_bin < p \div si_bin
          /\ \E ct \in DOMAIN si_ref : GeneAt(si_table, c, p) \in si_ref[ct]
          /\ si_table' = Exchange(si_table, c, p, q)
          /\ si_move' = [cluster |-> c, from |-> p, to |-> q]
    /\ si_before' = si_scores
    /\ si_scores' = score_iter(si_table', NbMarker(si_names), si_ref, si_bin)
    /\ si_pc' = "moved"
    /\ UNCHANGED <<si_names, si_ref, si_bin>>
    /\ UNCHANGED ds_vars

ScoreNext == ScoreCall \/ MoveAndRescore

SpecScore == ScoreInit /\ [][ScoreNext]_vars

\* ------------------------------------------------- SpecScore: the claims
\* The genes of cluster c at the rank positions lo..hi.
GenesAtRanks(df, c, lo, hi) ==
    {row.gene : row \in {x \in Range(df) : x.cluster_number = c /\ x.rank \in lo..hi}}

\* SUM over k in 0..num_bins-1 of (num_bins - k) * |genes at the rank
\* positions k*bin_size .. (k+1)*bin_size - 1 that are markers|, with
\* num_bins = floor(nb_marker / bin_size)
WeightedOverlap(df, nb, ref, bin, c, ct) ==
    LET nbins == nb \div bin
    IN  SumTo([k \in 0..(nbins - 1) |->
                 (nbins - k) * Cardinality(GenesAtRanks(df, c, k * bin, (k + 1) * bin - 1) \cap ref[ct])],
              nbins)

\* C1 as claimed: for every table, reference, nb_marker > 0 and
\* bin_size > 0, _score_iter gives each (cluster, cell type) pair the
\* weighted overlap of the cell type's markers with the cluster's bins.
C1_EachPairScored ==
    si_pc # "init" =>
        \A c \in DOMAIN si_names : \A ct \in DOMAIN si_ref :
            /\ c \in DOMAIN si_scores
            /\ ct \in DOMAIN si_scores[c]
            /\ si_scores[c][ct] = WeightedOverlap(si_table, NbMarker(si_names), si_ref, si_bin, c, ct)

\* C1, the part the code satisfies: with at least one bin every pair has
\* the weighted overlap as its score; with no bin no pair has a score.
C1_ScoredWhenBinsExist ==
    si_pc # "init" =>
        \A c \in DOMAIN si_names :
            /\ c \in DOMAIN si_scores
            /\ IF NbMarker(si_names) \div si_bin = 0
               THEN DOMAIN si_scores[c] = {}
               ELSE /\ DOMAIN si_scores[c] = DOMAIN si_ref
                    /\ \A ct \in DOMAIN si_ref :
                          si_scores[c][ct] =
                              WeightedOverlap(si_table, NbMarker(si_names), si_ref, si_bin, c, ct)

\* the gene that was moved, now at the earlier position
MovedGene == GeneAt(si_table, si_move.cluster, si_move.to)

ScoreNotLower ==
    \A ct \in DOMAIN si_ref :
        MovedGene \in si_ref[ct] =>
            si_scores[si_move.cluster][ct] >= si_before[si_move.cluster][ct]

\* no gene at two rank positions of cluster c
NoRepeatedGene(df, c) ==
    \A x, y \in Range(df) :
        (x.cluster_number = c /\ y.cluster_number = c /\ x.gene = y.gene) => x.rank = y.rank

\* C10 as claimed: for every table, also one in which a gene occurs at
\* more than one rank position of a cluster, moving a matched marker gene
\* from a later bin to an earlier bin never decreases the cell type's
\* score for the cluster.
C10_MoveNeverDecreases == si_pc = "moved" => ScoreNotLower

\* C10 amended: in a table in which no gene occurs at more than one rank
\* position of the cluster, exchanging a matched marker gene in a later
\* bin with the gene at a position of an earlier bin never decreases the
\* cell type's score for the cluster.
C10_MoveNeverDecreasesNoRepeat ==
    (si_pc = "moved" /\ NoRepeatedGene(si_table, si_move.cluster)) => ScoreNotLower

\* C10 witness: such a move was made and raised a score.
C10_Witness ==
    /\ si_pc = "moved"
    /\ NoRepeatedGene(si_table, si_move.cluster)
    /\ \E ct \in DOMAIN si_ref :
          /\ MovedGene \in si_ref[ct]
          /\ si_scores[si_move.cluster][ct] > si_before[si_move.cluster][ct]

====
